---- MODULE Spec2Model ----
(***************************************************************************)
(* A model of pacur/httpserver: the static request handler with its        *)
(* directory listing (src/main.go, src/unnamed/part_000) and the TLS        *)
(* start-up of the second variant (src/unnamed/part_000).                  *)
(*                                                                         *)
(* Strings are sequences of byte values, a filesystem path is the sequence *)
(* of its components, and a URL path "/a/b/" is the sequence of the pieces *)
(* between its slashes after the leading one (<<a, b, <<>>>>), so that a   *)
(* trailing slash is an empty last piece.                                  *)
(***************************************************************************)
EXTENDS Integers, Sequences, FiniteSets, TLC

VARIABLES
    tree,        \* the filesystem, as the choices that make it up (see FS)
    Cache,       \* StaticHandler.Cache
    ContentType, \* StaticHandler.ContentType ("" when not forced)
    resp,        \* the request being answered and its response
    scanned,     \* sorting: the items in the order the scan delivered them
    items,       \* sorting: Items.items
    sortCalls,   \* sorting: number of Items.Sort calls so far
    entry,       \* formatting: the directory entry being rendered
    line,        \* formatting: the Item built for it
    pc,          \* main: position in main()
    tlsServer,   \* main: the -tls flag
    ca,          \* main: the CA material minted by selfCert(nil, nil)
    leaf,        \* main: the leaf material minted by selfCert(caCert, caKey)
    tlsConfig,   \* main: the tls.Config handed to tls.Listen
    exit,        \* main: how the process ended ("" while it runs)
    served       \* main: requests served so far

handlerVars == <<tree, Cache, ContentType, resp>>
sortVars == <<scanned, items, sortCalls>>
fmtVars == <<entry, line>>
mainVars == <<pc, tlsServer, ca, leaf, tlsConfig, exit, served>>
vars == <<tree, Cache, ContentType, resp, scanned, items, sortCalls, entry, line,
          pc, tlsServer, ca, leaf, tlsConfig, exit, served>>

-----------------------------------------------------------------------------
(* Byte strings.                                                           *)

Empty == <<>>
sDot == <<46>>
sDotDot == <<46, 46>>
sSlash == <<47>>
sIndexHtml == <<105, 110, 100, 101, 120, 46, 104, 116, 109, 108>>
sSrv == <<115, 114, 118>>
sA == <<97>>
sC == <<99>>
sD == <<100>>
sF == <<102>>
sS == <<115>>
sT == <<116>>
sX == <<120>>
sHid == <<46, 104>>

MinOf(S) == CHOOSE m \in S : \A n \in S : m <= n

\* Go's < on strings: bytewise lexicographic, a proper prefix is smaller.
StrLess(a, b) ==
    \E k \in 1..(Len(a) + 1) :
        /\ \A i \in 1..(k - 1) : i <= Len(b) /\ a[i] = b[i]
        /\ \/ k = Len(a) + 1 /\ Len(b) >= k
           \/ k <= Len(a) /\ k <= Len(b) /\ a[k] < b[k]

IsPrefix(p, q) == Len(p) <= Len(q) /\ SubSeq(q, 1, Len(p)) = p

-----------------------------------------------------------------------------
(* Paths.                                                                  *)

\* filepath.Clean of a rooted path, given and returned as its pieces: empty
\* pieces and "." are dropped, ".." removes the piece before it, and a ".."
\* at the root is dropped.
RECURSIVE CleanFrom(_, _)
CleanFrom(stack, rest) ==
    IF rest = <<>> THEN stack
    ELSE LET s == Head(rest) IN
         IF s = Empty \/ s = sDot THEN CleanFrom(stack, Tail(rest))
         ELSE IF s = sDotDot
              THEN CleanFrom(IF stack = <<>> THEN stack
                             ELSE SubSeq(stack, 1, Len(stack) - 1), Tail(rest))
              ELSE CleanFrom(Append(stack, s), Tail(rest))

Clean(pieces) == CleanFrom(<<>>, pieces)

\* filepath.Join(a, b): the two joined with a separator, then cleaned.
Join(a, b) == Clean(a \o b)

\* c.Param("filepath") for the route "/*filepath" is the URL path itself;
\* "/" + param, split at its slashes after the leading one.
SlashParam(url) == <<Empty>> \o url

Root == <<sSrv>>
Cwd == Root

ResolvePathUncleaned(url) == Join(Root, SlashParam(url))

\* path := filepath.Join(h.Root, filepath.FromSlash(filepath.Clean("/"+param)))
ResolvePath(url) == Join(Root, Clean(SlashParam(url)))

\* strings.HasSuffix(c.Request.URL.Path, "/")
UrlHasSuffixSlash(url) == url[Len(url)] = Empty

-----------------------------------------------------------------------------
(* The filesystem and the os calls the handler makes.                      *)

File(size, mtime) ==
    [k |-> "file", size |-> size, mtime |-> mtime, readable |-> TRUE,
     abs |-> TRUE, target |-> <<>>, ioerr |-> FALSE]
Dir(mtime, readable) ==
    [k |-> "dir", size |-> 4096, mtime |-> mtime, readable |-> readable,
     abs |-> TRUE, target |-> <<>>, ioerr |-> FALSE]
Link(mtime, abs, target, ioerr) ==
    [k |-> "link", size |-> Len(target), mtime |-> mtime, readable |-> TRUE,
     abs |-> abs, target |-> target, ioerr |-> ioerr]

NoNode == File(0, 0)
Ok(n) == [err |-> "", node |-> n]
Fail(e) == [err |-> e, node |-> NoNode]

Prefix(p, i) == SubSeq(p, 1, i)
Parent(p) == SubSeq(p, 1, Len(p) - 1)

\* os.Lstat of an absolute path: every component before the last must be a
\* directory; the last one is not followed.
Lstat(f, p) ==
    LET bad == {i \in 1..(Len(p) - 1) :
                   Prefix(p, i) \notin DOMAIN f \/ f[Prefix(p, i)].k # "dir"}
    IN IF bad # {}
       THEN IF Prefix(p, MinOf(bad)) \notin DOMAIN f
            THEN Fail("ENOENT") ELSE Fail("ENOTDIR")
       ELSE IF p \notin DOMAIN f THEN Fail("ENOENT") ELSE Ok(f[p])

\* The absolute path a link's target names for the kernel: a relative target
\* is relative to the directory holding the link.
TargetOf(p, n) == IF n.abs THEN n.target ELSE Parent(p) \o n.target

\* os.Stat: Lstat, following a final symbolic link to its ultimate target.
RECURSIVE StatFrom(_, _, _)
StatFrom(f, p, depth) ==
    LET r == Lstat(f, p) IN
    IF r.err # "" \/ r.node.k # "link" THEN r
    ELSE IF depth = 0 THEN Fail("ELOOP")
    ELSE StatFrom(f, TargetOf(p, r.node), depth - 1)

Stat(f, p) == StatFrom(f, p, Cardinality(DOMAIN f))

\* os.Readlink
Readlink(f, p) ==
    IF f[p].ioerr THEN [err |-> "EIO", abs |-> TRUE, target |-> <<>>]
    ELSE [err |-> "", abs |-> f[p].abs, target |-> f[p].target]

\* A path string handed to a system call by the process: a relative one is
\* relative to the working directory of the process.
FromCwd(abs, target) == IF abs THEN target ELSE Cwd \o target

ChildNames(f, p) == {q[Len(q)] : q \in {r \in DOMAIN f : r # <<>> /\ Parent(r) = p}}

RECURSIVE SortNames(_)
SortNames(S) ==
    IF S = {} THEN <<>>
    ELSE LET m == CHOOSE x \in S : \A y \in S : y = x \/ StrLess(x, y)
         IN <<m>> \o SortNames(S \ {m})

\* ioutil.ReadDir: the entries of the directory sorted by file name, each with
\* its own (Lstat) information.
ReadDir(f, p) ==
    IF ~f[p].readable THEN [err |-> "EACCES", list |-> <<>>]
    ELSE LET names == SortNames(ChildNames(f, p))
         IN [err |-> "",
             list |-> [i \in 1..Len(names) |->
                         [name |-> names[i], info |-> f[Append(p, names[i])]]]]

\* os.IsNotExist
IsNotExist(e) == e = "ENOENT"

\* IsDirectory
IsDirectory(f, p) ==
    LET r == Stat(f, p) IN
    IF r.err # ""
    THEN [dir |-> FALSE, err |-> IF IsNotExist(r.err) THEN "" ELSE r.err]
    ELSE [dir |-> r.node.k = "dir", err |-> ""]

-----------------------------------------------------------------------------
(* Items and their order.                                                  *)

LessDirsOnly(a, b) ==
    IF a.IsDir /\ ~b.IsDir THEN TRUE
    ELSE IF ~a.IsDir /\ b.IsDir THEN FALSE
    ELSE StrLess(a.Name, b.Name)

\* Items.Less, on the two items themselves
Less(a, b) ==
    LET iDir == a.IsDir
        jDir == b.IsDir
        iHidden == SubSeq(a.Name, 1, 1) = sDot
        jHidden == SubSeq(b.Name, 1, 1) = sDot
    IN IF iDir /\ ~jDir THEN TRUE
       ELSE IF ~iDir /\ jDir THEN FALSE
       ELSE IF iHidden /\ ~jHidden THEN TRUE
       ELSE IF ~iHidden /\ jHidden THEN FALSE
       ELSE StrLess(a.Name, b.Name)

\* Items.Add
Add(s, item) == Append(s, item)

\* One pass of the insertion loop of sort.Sort: the item at position j moves
\* left (Items.Swap) while it is Less than its left neighbour.
RECURSIVE SinkLeft(_, _)
SinkLeft(s, j) ==
    IF j > 1 /\ Less(s[j], s[j - 1])
    THEN SinkLeft([s EXCEPT ![j] = s[j - 1], ![j - 1] = s[j]], j - 1)
    ELSE s

RECURSIVE InsertionFrom(_, _)
InsertionFrom(s, i) ==
    IF i > Len(s) THEN s ELSE InsertionFrom(SinkLeft(s, i), i + 1)

\* Items.Sort: sort.Sort, which for the short slices of the model is its
\* insertion sort driven by Less and Swap.
Sort(s) == InsertionFrom(s, 2)

-----------------------------------------------------------------------------
(* Rendering one entry.                                                    *)

TruncLimit == 50
TruncKeep == 47
sEllipsis == <<46, 46, 62>>
sDash == <<45>>

\* fmt.Sprintf("%d", n) for n >= 0
RECURSIVE Decimal(_)
Decimal(n) ==
    IF n < 10 THEN <<48 + n>> ELSE Append(Decimal(n \div 10), 48 + (n % 10))

\* ModTime().Format("02-Jan-2006 15:04"): the time to the minute, the seconds
\* are not printed. Times are seconds; the text is identified with the minute.
FormatTime(t) == t \div 60

FormatNameAtLimit(name) ==
    IF Len(name) >= TruncLimit THEN SubSeq(name, 1, TruncKeep) \o sEllipsis
    ELSE name

\* formattedName := name; if len(formattedName) > 50 { [:47] + "..>" }
FormatName(name) ==
    IF Len(name) > TruncLimit THEN SubSeq(name, 1, TruncKeep) \o sEllipsis
    ELSE name

\* The Item of an entry: `base` is item.Name(), `modTime` the text computed
\* from the entry before a link is resolved, `info` the (possibly replaced)
\* os.FileInfo. Formatted is kept as the fields Sprintf lays out: the href,
\* the anchor text, the width of the "%-54s" field holding the anchor text
\* and "</a>", the time text and the size text.
MakeItem(base, modTime, info) ==
    LET isDir == info.k = "dir"
        name == IF isDir THEN base \o sSlash ELSE base
        size == IF isDir THEN sDash ELSE Decimal(info.size)
        formattedName == FormatName(name)
        cell == Len(formattedName) + 4
    IN [Name |-> name,
        IsDir |-> isDir,
        Formatted |-> [href |-> name,
                       anchor |-> formattedName,
                       width |-> IF cell < 54 THEN 54 ELSE cell,
                       modTime |-> modTime,
                       size |-> size]]

\* Items.Join, kept as the sequence of the lines it joins
JoinLines(s) == [i \in 1..Len(s) |-> s[i].Formatted]

-----------------------------------------------------------------------------
(* The response writer: gin's ResponseWriter over net/http's. `status` is   *)
(* the status gin holds, `wire` the status line sent (0: none yet), `sent`  *)
(* the headers that went out with it, `body` what was written after it.     *)

NewWriter ==
    [status |-> 200, written |-> FALSE, wire |-> 0, hdr |-> {}, sent |-> {},
     location |-> <<>>, body |-> <<>>]

\* c.Writer.Header().Add(k, v)
HeaderAdd(w, k, v) == [w EXCEPT !.hdr = @ \cup {<<k, v>>}]

\* Header().Set(k, v)
HeaderSet(w, k, v) ==
    [w EXCEPT !.hdr = {h \in @ : h[1] # k} \cup {<<k, v>>}]

HasHeader(hdr, k) == \E h \in hdr : h[1] = k

\* ResponseWriter.WriteHeader: gin only records the status, and not once the
\* header has gone out
WriteHeader(w, code) ==
    IF code > 0 /\ w.status # code /\ ~w.written
    THEN [w EXCEPT !.status = code] ELSE w

\* ResponseWriter.WriteHeaderNow
WriteHeaderNow(w) ==
    IF w.written THEN w
    ELSE [w EXCEPT !.written = TRUE, !.wire = w.status, !.sent = w.hdr]

\* ResponseWriter.Write
Write(w, chunk) ==
    LET w1 == WriteHeaderNow(w) IN [w1 EXCEPT !.body = Append(@, chunk)]

\* c.Redirect(code, location): http.Redirect sets Location (and a content type
\* for GET and HEAD), calls WriteHeader, and for GET writes a short note
Redirect(w, method, code, location) ==
    LET w1 == [HeaderSet(w, "Location", "url") EXCEPT !.location = location]
        w2 == IF HasHeader(w1.hdr, "Content-Type") THEN w1
              ELSE HeaderSet(w1, "Content-Type", "text/html; charset=utf-8")
        w3 == WriteHeader(w2, code)
    IN IF method = "GET" /\ ~HasHeader(w1.hdr, "Content-Type")
       THEN Write(w3, [kind |-> "note", title |-> <<>>, lines |-> <<>>])
       ELSE w3

\* c.Data(code, contentType, data): the status, the content type when none is
\* set, the bytes
Data(w, code, contentType, data) ==
    LET w1 == WriteHeader(w, code)
        w2 == IF HasHeader(w1.hdr, "Content-Type") THEN w1
              ELSE HeaderSet(w1, "Content-Type", contentType)
    IN Write(w2, data)

\* c.AbortWithError(code, err): the status, WriteHeaderNow, Abort
AbortWithError(w, code) == WriteHeaderNow(WriteHeader(w, code))

-----------------------------------------------------------------------------
(* The tree. The served root /srv holds a file f, a link c to f, and the    *)
(* directory d with a subdirectory s and a hidden file .h; the rest varies: *)
(* whether d can be read, whether d holds index.html, where a file t lies   *)
(* (in d, or in the working directory), and what d/a is.                    *)

pD == <<sSrv, sD>>

AKinds == {"none", "file", "absT", "relT", "absS", "relFX", "ioerr", "chain"}
TPlaces == {"none", "dir", "cwd"}

NodeA(aKind) ==
    CASE aKind = "file" -> File(10, 60)
      [] aKind = "absT" -> Link(60, TRUE, <<sSrv, sD, sT>>, FALSE)
      [] aKind = "relT" -> Link(60, FALSE, <<sT>>, FALSE)
      [] aKind = "absS" -> Link(60, TRUE, <<sSrv, sD, sS>>, FALSE)
      [] aKind = "relFX" -> Link(60, FALSE, <<sF, sX>>, FALSE)
      [] aKind = "ioerr" -> Link(60, TRUE, <<sSrv, sD, sT>>, TRUE)
      [] aKind = "chain" -> Link(60, TRUE, <<sSrv, sC>>, FALSE)

Only(cond, p, n) == IF cond THEN p :> n ELSE <<>>

MakeFS(aKind, dReadable, idx, tAt) ==
    (<<>> :> Dir(540, TRUE))
    @@ (<<sSrv>> :> Dir(600, TRUE))
    @@ (<<sSrv, sC>> :> Link(660, TRUE, <<sSrv, sF>>, FALSE))
    @@ (pD :> Dir(720, dReadable))
    @@ (<<sSrv, sF>> :> File(5, 240))
    @@ (<<sSrv, sD, sS>> :> Dir(300, TRUE))
    @@ (<<sSrv, sD, sHid>> :> File(7, 360))
    @@ Only(tAt = "cwd", <<sSrv, sT>>, File(30, 180))
    @@ Only(tAt = "dir", <<sSrv, sD, sT>>, File(20, 120))
    @@ Only(idx, <<sSrv, sD, sIndexHtml>>, File(100, 420))
    @@ Only(aKind # "none", <<sSrv, sD, sA>>, NodeA(aKind))

Trees == [a : AKinds, readable : BOOLEAN, index : BOOLEAN, t : TPlaces]

\* the filesystem: absolute path -> node
FS == MakeFS(tree.a, tree.readable, tree.index, tree.t)

-----------------------------------------------------------------------------
(* StaticHandler                                                            *)

CacheHeadersInverted(w, cache) ==
    IF cache
    THEN HeaderAdd(HeaderAdd(HeaderAdd(w,
            "Cache-Control", "no-cache, no-store, must-revalidate"),
            "Pragma", "no-cache"), "Expires", "0")
    ELSE w

\* Handle, its first statement: the three headers unless h.Cache
CacheHeaders(w, cache) ==
    IF ~cache
    THEN HeaderAdd(HeaderAdd(HeaderAdd(w,
            "Cache-Control", "no-cache, no-store, must-revalidate"),
            "Pragma", "no-cache"), "Expires", "0")
    ELSE w

\* HandleDirList, the loop over itemsAll from entry i on, `acc` the items
\* added so far. stop: "index" (return at index.html), "err" (return with
\* err set), "end" (the loop ran to its end).
RECURSIVE ScanFrom(_, _, _, _, _)
ScanFrom(f, path, list, i, acc) ==
    IF i > Len(list) THEN [stop |-> "end", err |-> "", items |-> acc]
    ELSE
    LET item == list[i]
        name == item.name
        modTime == FormatTime(item.info.mtime)
        link == Readlink(f, Join(path, <<name>>))
        itm == Lstat(f, FromCwd(link.abs, link.target))
    IN IF name = sIndexHtml THEN [stop |-> "index", err |-> "", items |-> acc]
       ELSE IF item.info.k = "link"
       THEN IF link.err # "" THEN [stop |-> "err", err |-> link.err, items |-> acc]
            ELSE IF itm.err # ""
            THEN IF IsNotExist(itm.err) THEN ScanFrom(f, path, list, i + 1, acc)
                 ELSE [stop |-> "err", err |-> itm.err, items |-> acc]
            ELSE ScanFrom(f, path, list, i + 1,
                          Add(acc, MakeItem(name, modTime, itm.node)))
       ELSE ScanFrom(f, path, list, i + 1,
                     Add(acc, MakeItem(name, modTime, item.info)))

\* HandleDirList(path, c): (ok, err), the writer after it, and the items
HandleDirList(f, path, method, url, w) ==
    LET pathFrm == Clean(SlashParam(url))
        w1 == IF ~UrlHasSuffixSlash(url)
              THEN Redirect(w, method, 301, url \o <<Empty>>) ELSE w
        itemsAll == ReadDir(f, path)
        scan == ScanFrom(f, path, itemsAll.list, 1, <<>>)
        sorted == Sort(scan.items)
    IN IF itemsAll.err # ""
       THEN [ok |-> FALSE, err |-> itemsAll.err, w |-> w1, items |-> <<>>]
       ELSE IF scan.stop # "end"
       THEN [ok |-> FALSE, err |-> scan.err, w |-> w1, items |-> <<>>]
       ELSE [ok |-> TRUE, err |-> "",
             w |-> Data(w1, 200, "text/html",
                        [kind |-> "listing", title |-> pathFrm,
                         lines |-> JoinLines(sorted)]),
             items |-> sorted]

Methods == {"GET", "HEAD"}

Idle ==
    [phase |-> "idle", method |-> "", url |-> <<>>, path |-> <<>>,
     isDir |-> FALSE, stage |-> "", err |-> "", ok |-> FALSE,
     w |-> NewWriter, raw |-> 0, items |-> <<>>]

\* Handle(c) for one request. `raw` counts h.fileServer.ServeHTTP calls;
\* `stage` says where an error was returned ("stat" or "list").
Handle(method, url) ==
    /\ resp.phase = "idle"
    /\ LET w0 == CacheHeaders(NewWriter, Cache)
           path == ResolvePath(url)
           d == IsDirectory(FS, path)
           l == IF d.dir THEN HandleDirList(FS, path, method, url, w0)
                ELSE [ok |-> FALSE, err |-> "", w |-> w0, items |-> <<>>]
           base == [Idle EXCEPT !.phase = "done", !.method = method,
                                !.url = url, !.path = path, !.isDir = d.dir]
       IN resp' =
            IF d.err # ""
            THEN [base EXCEPT !.stage = "stat", !.err = d.err,
                              !.w = AbortWithError(w0, 500)]
            ELSE IF l.err # ""
            THEN [base EXCEPT !.stage = "list", !.err = l.err,
                              !.w = AbortWithError(l.w, 500)]
            ELSE IF l.ok
            THEN [base EXCEPT !.ok = TRUE, !.w = l.w, !.items = l.items]
            ELSE [base EXCEPT !.raw = 1,
                              !.w = IF ContentType # ""
                                    THEN HeaderAdd(l.w, "Content-Type", ContentType)
                                    ELSE l.w]
    /\ UNCHANGED <<tree, Cache, ContentType>>

\* The handler has returned: the context and its items are discarded, and the
\* server takes the next request.
Complete ==
    /\ resp.phase = "done"
    /\ resp' = Idle
    /\ UNCHANGED <<tree, Cache, ContentType>>

-----------------------------------------------------------------------------
(* Requests, and the specification of the handler.                         *)

MaxSegs == 2
Pieces == {Empty, sDot, sDotDot, sD, sF, sX}

RECURSIVE SeqsUpTo(_, _)
SeqsUpTo(S, n) ==
    IF n = 0 THEN {<<>>}
    ELSE LET shorter == SeqsUpTo(S, n - 1)
         IN shorter \cup {Append(q, x) : q \in shorter, x \in S}

Urls == SeqsUpTo(Pieces, MaxSegs) \ {<<>>}

SortIdle == scanned = <<>> /\ items = <<>> /\ sortCalls = 0
FmtIdle == entry = <<>> /\ line = <<>>
MainIdle ==
    /\ pc = "" /\ tlsServer = FALSE /\ ca = <<>> /\ leaf = <<>>
    /\ tlsConfig = <<>> /\ exit = "" /\ served = 0
HandlerIdle == tree = <<>> /\ Cache = FALSE /\ ContentType = "" /\ resp = <<>>

Init ==
    /\ tree \in Trees
    /\ Cache \in BOOLEAN
    /\ ContentType \in {"", "text/plain"}
    /\ resp = Idle
    /\ SortIdle /\ FmtIdle /\ MainIdle

Next ==
    \/ \E method \in Methods, url \in Urls :
          Handle(method, url) /\ UNCHANGED <<sortVars, fmtVars, mainVars>>
    \/ Complete /\ UNCHANGED <<sortVars, fmtVars, mainVars>>

Spec == Init /\ [][Next]_vars

-----------------------------------------------------------------------------
(* What the tree holds, for the statements below.                           *)

Done == resp.phase = "done"

\* the response holds a listing page
ListingWritten == \E i \in DOMAIN resp.w.body : resp.w.body[i].kind = "listing"

\* the handler issued the redirect to the slash-terminated form
Redirected == resp.w.location = resp.url \o <<Empty>>

HasIndex(p) == sIndexHtml \in ChildNames(FS, p)

\* the entry of a line: its name without the "/" a directory gets
BaseOf(it) == IF it.IsDir THEN SubSeq(it.Name, 1, Len(it.Name) - 1) ELSE it.Name

IsLink(p) == FS[p].k = "link"

\* a link whose ultimate target exists / does not exist
Resolves(p) == IsLink(p) /\ Stat(FS, p).err = ""
Dangling(p) == IsLink(p) /\ IsNotExist(Stat(FS, p).err)

NoCacheNames == {"Cache-Control", "Pragma", "Expires"}
NoCacheHeaders ==
    {<<"Cache-Control", "no-cache, no-store, must-revalidate">>,
     <<"Pragma", "no-cache">>, <<"Expires", "0">>}

\* the headers of the response: those sent with the status line, or those set
\* when the handler passed the response on without sending one
ResponseHeaders == IF resp.w.written THEN resp.w.sent ELSE resp.w.hdr

-----------------------------------------------------------------------------
\* C1: for a request that resolves to a (readable) directory holding an entry
\* named index.html, whatever its other entries are, Handle writes no listing
\* page and calls the file server exactly once.
C1_IndexServedRaw ==
    (Done /\ resp.isDir /\ FS[resp.path].readable /\ HasIndex(resp.path))
        => (~ListingWritten /\ resp.raw = 1)

\* C2: a request for a directory without a trailing slash gets the redirect to
\* the slash-terminated path and no listing body in the same response.
C2_RedirectWithoutListing ==
    (Done /\ resp.isDir /\ ~UrlHasSuffixSlash(resp.url))
        => (Redirected /\ ~ListingWritten)

\* C3: with caching disabled every response of Handle carries the three
\* no-cache headers; with caching enabled it carries none of them.
C3_CacheHeaders ==
    Done => /\ ~Cache => NoCacheHeaders \subseteq ResponseHeaders
            /\ Cache => \A h \in ResponseHeaders : h[1] \notin NoCacheNames

C3_Witness ==
    /\ Done /\ ~Cache /\ resp.w.wire = 500
    /\ NoCacheHeaders \subseteq resp.w.sent

\* C4: whatever "." and ".." pieces the request path holds, the path Handle
\* stats and lists is the root or a path below it.
C4_PathUnderRoot == Done => IsPrefix(Root, resp.path)

C4_Witness ==
    /\ Done /\ resp.path = Root
    /\ Len(resp.url) >= 2 /\ resp.url[1] = sDotDot /\ resp.url[2] = sDotDot

\* C5: a request in which Handle meets an error (a stat error other than
\* not-found, an unreadable directory, a failing link) ends with status 500,
\* no listing and no file serving; a path that does not exist is passed to the
\* file server and not answered with 500.
C5_ErrorsAnswered500 ==
    Done => /\ resp.err # ""
                => (resp.w.wire = 500 /\ ~ListingWritten /\ resp.raw = 0)
            /\ IsNotExist(Stat(FS, resp.path).err)
                => (resp.raw = 1 /\ resp.w.wire # 500)

\* C7: the line of a symbolic link whose target exists shows the size, the
\* directory-ness and the modification time of the link's ultimate target.
C7_LinkShowsTarget ==
    (Done /\ resp.ok) =>
        \A i \in DOMAIN resp.items :
            LET it == resp.items[i]
                p == Append(resp.path, BaseOf(it))
                t == Stat(FS, p).node
            IN Resolves(p) =>
                 /\ it.IsDir = (t.k = "dir")
                 /\ it.Formatted.size = (IF t.k = "dir" THEN sDash ELSE Decimal(t.size))
                 /\ it.Formatted.modTime = FormatTime(t.mtime)

\* C8: the listing of a readable directory without index.html has exactly one
\* line for each child except the links whose target does not exist.
C8_ListingComplete ==
    LET kids == ChildNames(FS, resp.path)
        shown == {c \in kids : ~Dangling(Append(resp.path, c))}
    IN (Done /\ resp.ok /\ ~HasIndex(resp.path))
       => /\ Len(resp.items) = Cardinality(shown)
          /\ {BaseOf(resp.items[i]) : i \in DOMAIN resp.items} = shown

-----------------------------------------------------------------------------
(* Sorting on its own: items are added in the order the scan delivers them  *)
(* and then sorted, as HandleDirList does.                                  *)

MaxItems == 3
MaxSorts == 2

sBTxt == <<98, 46, 116, 120, 116>>
sHidden == <<46, 104, 105, 100, 100, 101, 110>>
sSub == <<115, 117, 98>>
sUpperB == <<66>>
sMinusX == <<45, 120>>

SortNamesUniverse == {sBTxt, sHidden, sSub, sUpperB, sMinusX, sA}

EntryItem(base, dir) ==
    MakeItem(base, FormatTime(0), IF dir THEN Dir(0, TRUE) ELSE File(10, 0))

SortInit ==
    /\ scanned = <<>> /\ items = <<>> /\ sortCalls = 0
    /\ HandlerIdle /\ FmtIdle /\ MainIdle

\* the scan delivers one more entry: items.Add(Item{...})
AddItem(base, dir) ==
    /\ sortCalls = 0
    /\ Len(items) < MaxItems
    /\ \A i \in DOMAIN items : BaseOf(items[i]) # base
    /\ items' = Add(items, EntryItem(base, dir))
    /\ scanned' = items'
    /\ UNCHANGED sortCalls

\* items.Sort()
SortItems ==
    /\ sortCalls < MaxSorts
    /\ items' = Sort(items)
    /\ sortCalls' = sortCalls + 1
    /\ UNCHANGED scanned

SortNext ==
    \/ \E base \in SortNamesUniverse, dir \in BOOLEAN :
          AddItem(base, dir) /\ UNCHANGED <<handlerVars, fmtVars, mainVars>>
    \/ SortItems /\ UNCHANGED <<handlerVars, fmtVars, mainVars>>

SpecSort == SortInit /\ [][SortNext]_vars

Range(q) == {q[i] : i \in DOMAIN q}

\* The order the listing is to have: directories first, then hidden names
\* first, then the names in byte order.
Hidden(it) == it.Name[1] = 46
Precedes(a, b) ==
    \/ a.IsDir /\ ~b.IsDir
    \/ a.IsDir = b.IsDir /\ Hidden(a) /\ ~Hidden(b)
    \/ a.IsDir = b.IsDir /\ Hidden(a) = Hidden(b) /\ StrLess(a.Name, b.Name)

\* C6: Less is a strict total order on the entries of a directory; whatever
\* order the scan delivered, the sorted listing has every directory before
\* every file, within these every hidden name before every other, and the
\* rest in byte order of the names; sorting a sorted listing changes nothing;
\* {b.txt, .hidden, sub/} lists as sub/, .hidden, b.txt.
C6_SortOrder ==
    /\ \A a \in Range(items) : ~Less(a, a)
    /\ \A a, b \in Range(items) :
          /\ Less(a, b) => ~Less(b, a)
          /\ a # b => (Less(a, b) \/ Less(b, a))
          /\ \A c \in Range(items) : (Less(a, b) /\ Less(b, c)) => Less(a, c)
    /\ sortCalls >= 1 =>
          /\ Range(items) = Range(scanned) /\ Len(items) = Len(scanned)
          /\ \A i, j \in DOMAIN items : i < j => Precedes(items[i], items[j])
          /\ Sort(items) = items
          /\ Range(items) = {EntryItem(sBTxt, FALSE), EntryItem(sHidden, FALSE),
                             EntryItem(sSub, TRUE)}
                => [i \in DOMAIN items |-> items[i].Name]
                     = <<sSub \o sSlash, sHidden, sBTxt>>

C6_Witness ==
    /\ sortCalls = 2
    /\ scanned = <<EntryItem(sBTxt, FALSE), EntryItem(sHidden, FALSE),
                   EntryItem(sSub, TRUE)>>
    /\ items = <<EntryItem(sSub, TRUE), EntryItem(sHidden, FALSE),
                 EntryItem(sBTxt, FALSE)>>

-----------------------------------------------------------------------------
(* Rendering on its own: one entry of a directory and the Item built for it *)
(* by the body of the loop of HandleDirList.                                *)

MaxNameLen == 52

NameOfLen(n) == [i \in 1..n |-> 97 + (i % 26)]

FmtInit ==
    /\ entry \in [base : {NameOfLen(n) : n \in 1..MaxNameLen},
                  info : {File(10, 60), Dir(60, TRUE)}]
    /\ line = <<>>
    /\ HandlerIdle /\ SortIdle /\ MainIdle

Render ==
    /\ line = <<>>
    /\ line' = MakeItem(entry.base, FormatTime(entry.info.mtime), entry.info)
    /\ UNCHANGED entry

FmtNext == Render /\ UNCHANGED <<handlerVars, sortVars, mainVars>>

SpecFmt == FmtInit /\ [][FmtNext]_vars

Rendered == line # <<>>
Cut(name) == SubSeq(name, 1, TruncKeep) \o sEllipsis

\* C10 as claimed: an entry whose own name is longer than 50 shows the first
\* 47 characters of it and "..>"; an entry whose own name has 50 characters or
\* fewer shows the name unmodified (a directory: with its "/"); the href is
\* the full name.
C10_NameLengthDecides ==
    Rendered =>
        /\ Len(entry.base) > TruncLimit => line.Formatted.anchor = Cut(entry.base)
        /\ Len(entry.base) <= TruncLimit => line.Formatted.anchor = line.Name
        /\ line.Formatted.href = line.Name

\* C10 as amended: the length that decides is that of the displayed name, which
\* for a directory includes the "/": longer than 50 bytes, the anchor text is
\* its first 47 bytes and "..>" (50 bytes); otherwise it is the displayed name
\* unmodified. The href is the full displayed name.
C10_DisplayedLengthDecides ==
    Rendered =>
        LET shown == IF entry.info.k = "dir" THEN entry.base \o sSlash
                     ELSE entry.base
        IN /\ Len(shown) > TruncLimit
                => (line.Formatted.anchor = Cut(shown)
                    /\ Len(line.Formatted.anchor) = TruncLimit)
           /\ Len(shown) <= TruncLimit => line.Formatted.anchor = shown
           /\ line.Formatted.href = shown

C10_Witness ==
    /\ Rendered /\ entry.info.k = "dir" /\ Len(entry.base) = TruncLimit
    /\ line.Formatted.anchor = Cut(entry.base)
    /\ line.Formatted.href = entry.base \o sSlash

-----------------------------------------------------------------------------
(* main() of the TLS variant. nil is <<>>. Keys and serial numbers are      *)
(* drawn at random by the program, here from small sets; each library call  *)
(* that can return an error either does or does not.                        *)

Nil == <<>>
Keys == {"k1", "k2"}
Serials == {1, 2}
MaxServed == 2

\* selfCert(parent, parentKey), with the key and the serial it draws, and the
\* call that fails ("" for none): (cert, certByt, certKey, err)
SelfCert(parent, parentKey, key, serial, failAt) ==
    LET certKey == IF failAt = "GenerateKey" THEN Nil ELSE key
        certTempl == [SerialNumber |-> serial,
                      Subject |-> "Pacur HTTP Server",
                      Issuer |-> Nil, PublicKey |-> Nil, SignedBy |-> Nil]
        issuer == IF parent = Nil THEN certTempl ELSE parent
        issuerKey == IF parent = Nil THEN certKey ELSE parentKey
        certByt == [certTempl EXCEPT !.Issuer = issuer.Subject,
                                     !.PublicKey = certKey,
                                     !.SignedBy = issuerKey]
    IN IF failAt \in {"GenerateKey", "rand.Int"}
       THEN [cert |-> Nil, certByt |-> Nil, certKey |-> certKey, err |-> failAt]
       ELSE IF failAt = "CreateCertificate"
       THEN [cert |-> Nil, certByt |-> Nil, certKey |-> certKey, err |-> failAt]
       ELSE IF failAt = "ParseCertificate"
       THEN [cert |-> Nil, certByt |-> certByt, certKey |-> certKey, err |-> failAt]
       ELSE [cert |-> certByt, certByt |-> certByt, certKey |-> certKey, err |-> ""]

SelfCertFailures == {"", "GenerateKey", "rand.Int", "CreateCertificate", "ParseCertificate"}

MainInit ==
    /\ pc = "start" /\ tlsServer \in BOOLEAN
    /\ ca = Nil /\ leaf = Nil /\ tlsConfig = Nil /\ exit = "" /\ served = 0
    /\ HandlerIdle /\ SortIdle /\ FmtIdle

\* os.Getwd, flag.Parse, filepath.Abs, the handler and the router
Startup(fail) ==
    /\ pc = "start" /\ exit = ""
    /\ IF fail THEN exit' = "panic" /\ pc' = pc
       ELSE exit' = exit /\ pc' = IF tlsServer THEN "ca" ELSE "listen"
    /\ UNCHANGED <<tlsServer, ca, leaf, tlsConfig, served>>

\* caCert, _, caKey, err := selfCert(nil, nil)
MintCA(key, serial, failAt) ==
    /\ pc = "ca" /\ exit = ""
    /\ LET r == SelfCert(Nil, Nil, key, serial, failAt)
       IN IF r.err # "" THEN exit' = "panic" /\ pc' = pc /\ ca' = ca
          ELSE exit' = exit /\ pc' = "leaf"
               /\ ca' = [cert |-> r.cert, key |-> r.certKey]
    /\ UNCHANGED <<tlsServer, leaf, tlsConfig, served>>

\* _, certByt, certKey, err := selfCert(caCert, caKey)
MintLeaf(key, serial, failAt) ==
    /\ pc = "leaf" /\ exit = ""
    /\ LET r == SelfCert(ca.cert, ca.key, key, serial, failAt)
       IN IF r.err # "" THEN exit' = "panic" /\ pc' = pc /\ leaf' = leaf
          ELSE exit' = exit /\ pc' = "marshal"
               /\ leaf' = [certByt |-> r.certByt, certKey |-> r.certKey]
    /\ UNCHANGED <<tlsServer, ca, tlsConfig, served>>

\* certKeyByte, err := x509.MarshalECPrivateKey(certKey), and the PEM blocks
MarshalKey(fail) ==
    /\ pc = "marshal" /\ exit = ""
    /\ IF fail THEN exit' = "panic" /\ pc' = pc
       ELSE exit' = exit /\ pc' = "keypair"
    /\ UNCHANGED <<tlsServer, ca, leaf, tlsConfig, served>>

\* keypair, err := tls.X509KeyPair(certPem, keyPem); if err != nil { return },
\* and the tls.Config
LoadKeyPair(fail) ==
    /\ pc = "keypair" /\ exit = ""
    /\ IF fail THEN exit' = "return" /\ pc' = pc /\ tlsConfig' = tlsConfig
       ELSE /\ exit' = exit /\ pc' = "listen"
            /\ tlsConfig' = [MinVersion |-> "VersionTLS12",
                             MaxVersion |-> "VersionTLS12",
                             Certificates |-> <<[cert |-> leaf.certByt,
                                                 key |-> leaf.certKey]>>]
    /\ UNCHANGED <<tlsServer, ca, leaf, served>>

\* tls.Listen, or the listener of server.ListenAndServe
Listen(fail) ==
    /\ pc = "listen" /\ exit = ""
    /\ IF fail THEN exit' = "panic" /\ pc' = pc
       ELSE exit' = exit /\ pc' = "serve"
    /\ UNCHANGED <<tlsServer, ca, leaf, tlsConfig, served>>

\* server.Serve accepts a connection and a request is served
ServeRequest ==
    /\ pc = "serve" /\ exit = "" /\ served < MaxServed
    /\ served' = served + 1
    /\ UNCHANGED <<pc, tlsServer, ca, leaf, tlsConfig, exit>>

\* server.Serve returns its error
ServeEnds ==
    /\ pc = "serve" /\ exit = ""
    /\ exit' = "panic"
    /\ UNCHANGED <<pc, tlsServer, ca, leaf, tlsConfig, served>>

MainRest == UNCHANGED <<handlerVars, sortVars, fmtVars>>

MainNext ==
    \/ \E fail \in BOOLEAN : Startup(fail) /\ MainRest
    \/ \E key \in Keys, serial \in Serials, failAt \in SelfCertFailures :
          MintCA(key, serial, failAt) /\ MainRest
    \/ \E key \in Keys, serial \in Serials, failAt \in SelfCertFailures :
          MintLeaf(key, serial, failAt) /\ MainRest
    \/ \E fail \in BOOLEAN : MarshalKey(fail) /\ MainRest
    \/ \E fail \in BOOLEAN : LoadKeyPair(fail) /\ MainRest
    \/ \E fail \in BOOLEAN : Listen(fail) /\ MainRest
    \/ ServeRequest /\ MainRest
    \/ ServeEnds /\ MainRest

SpecMain == MainInit /\ [][MainNext]_vars

\* C9: with -tls, both certificates are minted before any request is served,
\* the configuration holds the leaf key pair alone at one protocol version,
\* and every failure of minting, marshalling or key-pair loading ends the
\* process as a fatal error (a panic) with no request served.
C9_TlsStartup ==
    tlsServer =>
        /\ pc \in {"start", "ca", "leaf", "marshal", "keypair", "listen"}
              => served = 0
        /\ served > 0 =>
              /\ ca # Nil /\ leaf # Nil
              /\ leaf.certByt.SignedBy = ca.key
              /\ tlsConfig.Certificates = <<[cert |-> leaf.certByt,
                                            key |-> leaf.certKey]>>
              /\ tlsConfig.MinVersion = tlsConfig.MaxVersion
        /\ (exit # "" /\ pc \in {"ca", "leaf", "marshal", "keypair"})
              => exit = "panic"

====
